---- MODULE Spec2Model ----
(***************************************************************************)
(* Model of the VIO pipeline orchestrator, src/pipeline/Pipeline.cpp:      *)
(* Pipeline::spin / spinOnce / processKeyframe on the orchestrator thread, *)
(* the three worker threads bound to their queue pairs, and                *)
(* Pipeline::shutdown (stopThreads + joinThreads) on a caller thread.      *)
(***************************************************************************)
EXTENDS Integers, Sequences, FiniteSets, TLC

\* ------------------------------------------------------------------ bounds
MaxFrames == 5
MaxWindowLen == 3
MaxShutdownCalls == 2

\* ------------------------------------------------------- program constants
\* VisualizationType, as enumerated by the help text of FLAGS_viz_type.
POINTCLOUD == 0
POINTCLOUD_REPEATEDPOINTS == 1
MESH2D == 2
MESH2DTo3D == 3
MESH2Dsparse == 4
MESH2DTo3Dsparse == 5
MESH3D == 6
NONE == 7

VizTypes == POINTCLOUD..NONE

\* dataset_->getBackendType(): 0 normal VIO, 1 regular VIO, anything else
\* is rejected by initBackend.
BackendTypes == 0..2

Workers == {"backend", "mesher", "visualizer"}

InQ(w) == w \o "_input_queue_"
OutQ(w) == w \o "_output_queue_"

Queues == {InQ(w) : w \in Workers} \cup {OutQ(w) : w \in Workers}

NoPayload == [kf |-> 0]

VARIABLES
  \* configuration, fixed for a run
  FLAGS_visualize, FLAGS_viz_type, FLAGS_use_feature_selection, backend_type,
  FLAGS_parallel_run,
  \* Pipeline::spin / spinOnce statics and members; pc is the orchestrator's
  \* position, k the frame id of the packet last handed to spin, and
  \* backend_output_payload the local of processKeyframe
  is_initialized, imu_stamps_lkf_to_curr_f, imu_accgyr_lkf_to_curr_f,
  timestamp_lkf, shutdown_, vio_backend_, pc, k, backend_output_payload,
  \* stereo_vision_frontend_
  stereoFrame_k_, stereoFrame_km1_,
  \* the six queues and the three std::thread objects
  queue, thread,
  \* the thread calling Pipeline::shutdown
  sd_pc, shutdownCalls,
  \* process-level outcome: "" while alive, otherwise the fatal cause
  fatal,
  \* the value returned by the last spin()
  spinReturn,
  \* observations of the run (history)
  keyframes, dispatchedAt, lifecycle, calls, window, joinAttempts, lastStep

cfgVars == <<FLAGS_visualize, FLAGS_viz_type, FLAGS_use_feature_selection,
             backend_type, FLAGS_parallel_run>>
imuVars == <<imu_stamps_lkf_to_curr_f, imu_accgyr_lkf_to_curr_f,
             timestamp_lkf>>
frontendVars == <<stereoFrame_k_, stereoFrame_km1_>>
sdVars == <<sd_pc, shutdownCalls, shutdown_, joinAttempts>>
obsVars == <<keyframes, dispatchedAt, lifecycle, calls, window, lastStep>>
vars == <<cfgVars, imuVars, frontendVars, sdVars, obsVars, is_initialized,
          vio_backend_, pc, k, backend_output_payload, queue, thread, fatal,
          spinReturn>>

\* ------------------------------------------------------------ input packets
\* Frame f carries timestamp f * TsStep.
TsStep == MaxWindowLen

FrameTimestamp(f) == f * TsStep

\* The inertial window of frame f with n samples: it starts at the previous
\* frame's timestamp and ends with the interpolated sample at the frame's own.
ImuStamps(f, n) ==
  [i \in 1..n |-> IF i = n THEN FrameTimestamp(f)
                           ELSE FrameTimestamp(f - 1) + (i - 1)]

StereoImuSyncPacket(f, n) ==
  [frame_id |-> f, timestamp |-> FrameTimestamp(f),
   imu_stamps |-> ImuStamps(f, n), imu_accgyr |-> ImuStamps(f, n)]

Packets(f) == {StereoImuSyncPacket(f, n) : n \in 2..MaxWindowLen}

\* Packets that break the SyncPacket invariant: no samples at all, or a
\* sample count that differs from the timestamp count.
IllFormedPackets(f) ==
  {[StereoImuSyncPacket(f, 2) EXCEPT !.imu_stamps = SubSeq(@, 1, n),
                                     !.imu_accgyr = SubSeq(@, 1, m)] :
     n \in {0, 2}, m \in {0, 1}}

\* ------------------------------------------------------------------ queues
\* ThreadsafeQueue: FIFO with push, popBlocking and shutdown.
EmptyQueue == [items |-> <<>>, closed |-> FALSE]

\* push: succeeds while the queue is open; a closed queue refuses the value.
PushOk(q, name) == ~q[name].closed

Push(q, name, v) ==
  IF PushOk(q, name) THEN [q EXCEPT ![name].items = Append(@, v)] ELSE q

\* popBlocking returns once a value is available or the queue is shut down.
CanPop(q, name) == q[name].closed \/ q[name].items # <<>>

\* The value a pop returns: empty when the queue is shut down (or, for a pop
\* that does not wait, when it holds nothing).
Popped(q, name) ==
  IF q[name].closed \/ q[name].items = <<>> THEN NoPayload
  ELSE Head(q[name].items)

\* The queue after that pop.
Pop(q, name) ==
  IF q[name].closed \/ q[name].items = <<>> THEN q
  ELSE [q EXCEPT ![name].items = Tail(@)]

\* shutdown: the queue is closed for good.  What it still held can no longer
\* be popped (popBlocking returns empty from now on), so it is dropped.
ShutdownQueue(q, name) == [q EXCEPT ![name] = [items |-> <<>>, closed |-> TRUE]]

\* --------------------------------------------------------- IMU accumulation
\* Eigen conservativeResize(NoChange, n): keeps the leading columns.
ConservativeResize(m, n) ==
  [i \in 1..n |-> IF i <= Len(m) THEN m[i] ELSE 0]

AssignRightCols_LeftCols(m, src) ==
  [i \in 1..Len(m) |-> IF i <= Len(src) THEN src[i] ELSE m[i]]

\* m.rightCols(Len(src)) << src
AssignRightCols(m, src) ==
  [i \in 1..Len(m) |-> IF i > Len(m) - Len(src)
                          THEN src[i - (Len(m) - Len(src))] ELSE m[i]]

Accumulate_KeepBoundary(reset, buf, w) == buf \o w

\* The append of spinOnce.  reset is the test of line 135, made on the
\* timestamps buffer for both buffers: a reset buffer takes the packet's
\* window verbatim, otherwise the last (interpolated) column is dropped and
\* the window added.
Accumulate(reset, buf, w) ==
  IF reset THEN w
  ELSE AssignRightCols(ConservativeResize(buf, Len(buf) - 1 + Len(w)), w)

\* The assertions of the append: CHECK_GE(imu_accgyr.cols(), 0u) in the
\* reset branch (line 138) holds of any packet; the other branch has the
\* four CHECK_GT of lines 143, 144, 151 and 152.
AccumulateChecksPass(stamps_buf, accgyr_buf, packet) ==
  IF Len(stamps_buf) = 0 THEN Len(packet.imu_accgyr) >= 0
  ELSE /\ Len(packet.imu_stamps) > 0 /\ Len(stamps_buf) > 0
       /\ Len(packet.imu_accgyr) > 0 /\ Len(accgyr_buf) > 0

\* ---------------------------------------------------------- mode dispatch
QueriesLandmarkMap_RepeatedFallsThrough(viz_type) ==
  viz_type \in {MESH2DTo3Dsparse, POINTCLOUD, POINTCLOUD_REPEATEDPOINTS}

QueriesLandmarkMap_NoneFallsThrough(viz_type) ==
  viz_type \in {MESH2DTo3Dsparse, POINTCLOUD, NONE}

\* Modes whose case calls vio_backend_->getMapLmkIdsTo3dPointsInTimeHorizon.
QueriesLandmarkMap(viz_type) ==
  viz_type \in {MESH2DTo3Dsparse, POINTCLOUD}

UsesMesher_AlsoMesh2D(viz_type) == viz_type \in {MESH2DTo3Dsparse, MESH2D}

\* The mode whose case pushes a MesherInputPayload and pops the mesher output.
UsesMesher(viz_type) == viz_type = MESH2DTo3Dsparse

\* The mode whose case calls vio_backend_->get3DPoints (line 367).
Gets3DPoints(viz_type) == viz_type = POINTCLOUD_REPEATEDPOINTS

\* The mode whose case calls createMesh2D on the last keyframe's left frame.
CreatesMesh2D(viz_type) == viz_type = MESH2D

\* The mode whose case calls createMesh2dStereo on the last keyframe.
CreatesMesh2dStereo(viz_type) == viz_type = MESH2Dsparse

\* The calls made by the switch of lines 318-376 for viz_type, added to c.
SwitchOnVizType(viz_type, c) ==
  [c EXCEPT
     !.lmkQuery = IF QueriesLandmarkMap(viz_type) THEN @ + 1 ELSE @,
     !.get3DPoints = IF Gets3DPoints(viz_type) THEN @ + 1 ELSE @,
     !.createMesh2D = IF CreatesMesh2D(viz_type) THEN @ + 1 ELSE @,
     !.createMesh2dStereo = IF CreatesMesh2dStereo(viz_type) THEN @ + 1 ELSE @]

\* ------------------------------------------------------------------- state
\* dataset_->timestamp_first_lkf_, the initial value of the static
\* timestamp_lkf (line 170): the timestamp of the frame the pipeline is
\* initialized with.
TimestampFirstLkf == FrameTimestamp(1)

NoFrame == [id |-> 0, isKeyframe |-> FALSE]

NoCalls ==
  [processStereoFrame |-> 0, processKeyframe |-> 0, backendPush |-> 0, mesherPush |-> 0,
   visualizerPush |-> 0, render |-> 0, lmkQuery |-> 0, get3DPoints |-> 0,
   createMesh2D |-> 0, createMesh2dStereo |-> 0]

EmptyWindow == [nPackets |-> 0, sumLen |-> 0, nNonKf |-> 0]

Init ==
  /\ FLAGS_visualize \in BOOLEAN
  /\ FLAGS_viz_type \in VizTypes
  /\ FLAGS_use_feature_selection \in BOOLEAN
  /\ backend_type \in BackendTypes
  /\ FLAGS_parallel_run \in BOOLEAN
  /\ is_initialized = FALSE
  /\ imu_stamps_lkf_to_curr_f = <<>>
  /\ imu_accgyr_lkf_to_curr_f = <<>>
  /\ timestamp_lkf = TimestampFirstLkf
  /\ shutdown_ = FALSE
  /\ vio_backend_ = "null"
  /\ pc = "idle"
  /\ k = 0
  /\ backend_output_payload = NoPayload
  /\ stereoFrame_k_ = NoFrame
  /\ stereoFrame_km1_ = NoFrame
  /\ queue = [n \in Queues |-> EmptyQueue]
  /\ thread = [w \in Workers |-> "not_started"]
  /\ sd_pc = "idle"
  /\ shutdownCalls = 0
  /\ fatal = ""
  /\ spinReturn = "none"
  /\ keyframes = {}
  /\ dispatchedAt = {}
  /\ lifecycle = <<>>
  /\ calls = NoCalls
  /\ window = EmptyWindow
  /\ joinAttempts = [w \in Workers |-> 0]
  /\ lastStep = [afterShutdown |-> FALSE, interrupted |-> FALSE,
                 illFormed |-> FALSE]

Alive == fatal = ""

\* A shutdown() call has returned.
ShutdownCompleted == sd_pc = "done"

\* The worker whose output the orchestrator awaits at each blocking pop.
WaitsOn(p) ==
  CASE p = "popBackend" -> "backend"
    [] p = "popMesher" -> "mesher"
    [] OTHER -> "visualizer"

\* ---------------------------------------------------------------- frontend
\* StereoVisionFrontEnd::processFirstStereoFrame: the first frame becomes the
\* frontend's only processed frame.
ProcessFirstStereoFrame(f, kf) ==
  [stereoFrame_k_ |-> [id |-> f, isKeyframe |-> kf],
   stereoFrame_km1_ |-> [id |-> f, isKeyframe |-> kf]]

\* StereoVisionFrontEnd::processStereoFrame: frame f is tracked against the
\* frame processed before it, which stays exposed as stereoFrame_km1_; kf is
\* the keyframe decision the frontend reports for f.
ProcessStereoFrame(last, f, kf) ==
  [stereoFrame_k_ |-> [id |-> f, isKeyframe |-> kf],
   stereoFrame_km1_ |-> last]

\* ------------------------------------------------------------ orchestrator
InitBackend_DefaultsToNormal(type) ==
  CASE type = 1 -> "RegularVioBackEnd"
    [] OTHER -> "VioBackEnd"

\* Pipeline::initBackend: the switch on dataset_->getBackendType().
InitBackend(type) ==
  CASE type = 0 -> "VioBackEnd"
    [] type = 1 -> "RegularVioBackEnd"
    [] OTHER -> "LOG_FATAL"

MarkInitialized_Forgotten == FALSE

\* Line 108: the value spin stores in is_initialized after launchThreads.
MarkInitialized == TRUE

\* Pipeline::spin, first call: initialize (processFirstStereoFrame and
\* initBackend), launchThreads, is_initialized = true, return true.
\* launchThreads and initBackend write the members that stopThreads and
\* joinThreads use, without synchronisation: the caller does not make this
\* call while a shutdown() call is in progress.
SpinInitialize ==
  /\ Alive /\ pc = "idle" /\ ~is_initialized /\ k < MaxFrames
  /\ sd_pc \in {"idle", "done"}
  /\ \E kf \in BOOLEAN :
       LET fe == ProcessFirstStereoFrame(k + 1, kf)
       IN /\ k' = k + 1
          /\ stereoFrame_k_' = fe.stereoFrame_k_
          /\ stereoFrame_km1_' = fe.stereoFrame_km1_
          /\ keyframes' = IF kf THEN keyframes \cup {k + 1} ELSE keyframes
  /\ lastStep' = [afterShutdown |-> ShutdownCompleted, interrupted |-> FALSE,
                  illFormed |-> FALSE]
  /\ IF InitBackend(backend_type) # "LOG_FATAL"
       THEN /\ vio_backend_' = InitBackend(backend_type)
            /\ thread' = [w \in Workers |-> "running"]
            /\ lifecycle' = lifecycle \o <<"initialize", "launchThreads">>
            /\ is_initialized' = MarkInitialized
            /\ spinReturn' = "true"
            /\ UNCHANGED <<pc, fatal>>
       ELSE /\ fatal' = "LOG_FATAL"
            /\ pc' = "initBackend"
            /\ lifecycle' = Append(lifecycle, "initialize")
            /\ UNCHANGED <<vio_backend_, thread, is_initialized, spinReturn>>
  /\ UNCHANGED <<cfgVars, imuVars, sdVars, queue, dispatchedAt, calls,
                 window, backend_output_payload>>

\* Pipeline::spinSequential (lines 418-420): LOG(FATAL).  It is the entry
\* point of a caller that runs the pipeline sequentially, taken instead of
\* spin from the outset.
SpinSequential ==
  /\ Alive /\ pc = "idle" /\ k = 0 /\ ~FLAGS_parallel_run
  /\ fatal' = "LOG_FATAL"
  /\ pc' = "spinSequential"
  /\ UNCHANGED <<cfgVars, imuVars, frontendVars, sdVars, obsVars,
                 is_initialized, vio_backend_, k, backend_output_payload,
                 queue, thread, spinReturn>>

\* The payload pushed at lines 282-290 in the step of frame f; meas names
\* the frame whose processStereoFrame call returned the measurements.
VioBackEndInputPayload(f, meas, stamps, accgyr) ==
  [kf |-> f, timestamp |-> FrameTimestamp(f), meas |-> meas,
   imu_stamps |-> stamps, imu_accgyr |-> accgyr]

StatusSmartStereoMeasurements_OfPreviousCall(current, previous) == previous

\* Lines 189-192 and 208: the measurements handed to processKeyframe are the
\* local statusSmartStereoMeasurements, the return value of this step's
\* processStereoFrame call (current), not that of the step before (previous).
StatusSmartStereoMeasurements(current, previous) == current

FeatureSelectionIsFatal_OnlyLogs(use_feature_selection) == FALSE

\* Lines 235-266: with FLAGS_use_feature_selection processKeyframe runs
\* featureSelect and then LOG(FATAL), before anything is pushed.
FeatureSelectionIsFatal(use_feature_selection) == use_feature_selection

IsKeyframeStep_CurrentFrame(frame_k, frame_km1) == frame_k.isKeyframe

\* Line 201: the condition under which spinOnce calls processKeyframe.
IsKeyframeStep(frame_k, frame_km1) == frame_km1.isKeyframe

\* Pipeline::spin, a later call with the given packet, for which the
\* frontend reports kf: spinOnce up to the push of the backend input (lines
\* 121-290).  A failed CHECK of the append ends the process before the
\* preintegration query and the frontend are reached.
SpinOnceOn(packet, kf) ==
  LET f == k + 1
      reset == Len(imu_stamps_lkf_to_curr_f) = 0
      stamps == Accumulate(reset, imu_stamps_lkf_to_curr_f, packet.imu_stamps)
      accgyr == Accumulate(reset, imu_accgyr_lkf_to_curr_f, packet.imu_accgyr)
      fe == ProcessStereoFrame(stereoFrame_k_, f, kf)
      dispatch == IsKeyframeStep(fe.stereoFrame_k_, fe.stereoFrame_km1_)
      c1 == [calls EXCEPT !.processStereoFrame = @ + 1]
      bad == \/ Len(packet.imu_stamps) # Len(packet.imu_accgyr)
             \/ Len(packet.imu_stamps) = 0
  IN
  /\ k' = f
  /\ lastStep' = [afterShutdown |-> ShutdownCompleted, interrupted |-> FALSE,
                  illFormed |-> bad]
  /\ IF ~AccumulateChecksPass(imu_stamps_lkf_to_curr_f,
                              imu_accgyr_lkf_to_curr_f, packet)
       THEN /\ fatal' = "CHECK"
            /\ pc' = "accumulate"
            /\ spinReturn' = "none"
            /\ UNCHANGED <<imuVars, frontendVars, keyframes, window, calls,
                           queue, dispatchedAt>>
       ELSE
       /\ imu_stamps_lkf_to_curr_f' = stamps
       /\ imu_accgyr_lkf_to_curr_f' = accgyr
       /\ stereoFrame_k_' = fe.stereoFrame_k_
       /\ stereoFrame_km1_' = fe.stereoFrame_km1_
       /\ keyframes' = IF kf THEN keyframes \cup {f} ELSE keyframes
       /\ window' = [nPackets |-> window.nPackets + 1,
                     sumLen |-> window.sumLen + Len(packet.imu_stamps),
                     nNonKf |-> IF ~dispatch /\ ~kf THEN window.nNonKf + 1
                                                   ELSE window.nNonKf]
       /\ IF ~dispatch
            THEN /\ spinReturn' = "true"
                 /\ calls' = c1
                 /\ UNCHANGED <<pc, fatal, queue, dispatchedAt>>
            ELSE /\ dispatchedAt' = dispatchedAt \cup {f}
                 /\ spinReturn' = "none"
                 /\ IF FeatureSelectionIsFatal(FLAGS_use_feature_selection)
                      THEN /\ fatal' = "LOG_FATAL"
                           /\ pc' = "processKeyframe"
                           /\ calls' = [c1 EXCEPT !.processKeyframe = @ + 1]
                           /\ UNCHANGED queue
                      ELSE /\ queue' = Push(queue, InQ("backend"),
                                  VioBackEndInputPayload(f,
                                    StatusSmartStereoMeasurements(
                                      f, stereoFrame_k_.id),
                                    stamps, accgyr))
                           /\ pc' = "popBackend"
                           /\ calls' = [c1 EXCEPT !.processKeyframe = @ + 1,
                                                  !.backendPush = @ + 1]
                           /\ UNCHANGED fatal
  /\ UNCHANGED <<cfgVars, timestamp_lkf, sdVars, is_initialized, vio_backend_,
                 thread, lifecycle, backend_output_payload>>

\* Pipeline::spin, a later call, with a packet that satisfies the SyncPacket
\* invariant.
SpinOnce ==
  /\ Alive /\ pc = "idle" /\ is_initialized /\ k < MaxFrames
  /\ \E packet \in Packets(k + 1), kf \in BOOLEAN : SpinOnceOn(packet, kf)

\* Pipeline::spin, a later call, with a packet that breaks it.
SpinOnceIllFormed ==
  /\ Alive /\ pc = "idle" /\ is_initialized /\ k < MaxFrames
  /\ \E packet \in IllFormedPackets(k + 1), kf \in BOOLEAN :
       SpinOnceOn(packet, kf)

ResizeToNoCols_KeepsBoundary(buf) ==
  IF buf = <<>> THEN <<>> ELSE <<buf[Len(buf)]>>

\* Lines 217-218: resize(1, 0) and resize(6, 0) leave no column.
ResizeToNoCols(buf) == <<>>

ResetTimestampLkf_OfKeyframe(f) == FrameTimestamp(f - 1)

\* Line 221: timestamp_lkf = stereoFrame_k.getTimestamp(), the timestamp of
\* the frame of the dispatching step f.
ResetTimestampLkf(f) == FrameTimestamp(f)

\* processKeyframe returns to spinOnce, which resets the accumulated window
\* and timestamp_lkf (lines 215-222); spin returns true.
ReturnFromKeyframe ==
  /\ pc' = "idle"
  /\ backend_output_payload' = NoPayload
  /\ imu_stamps_lkf_to_curr_f' = ResizeToNoCols(imu_stamps_lkf_to_curr_f)
  /\ imu_accgyr_lkf_to_curr_f' = ResizeToNoCols(imu_accgyr_lkf_to_curr_f)
  /\ timestamp_lkf' = ResetTimestampLkf(k)
  /\ window' = EmptyWindow
  /\ spinReturn' = "true"

\* Lines 378-407: with FLAGS_visualize the visualizer payload (with a copy of
\* planes_) is pushed and its output awaited; otherwise processKeyframe
\* returns.  q, c and out are the queues, the calls and the backend output
\* as the dispatch has them so far.
VisualizeStage(q, c, out) ==
  IF FLAGS_visualize
    THEN /\ queue' = Push(q, InQ("visualizer"), [kf |-> k])
         /\ calls' = [c EXCEPT !.visualizerPush = @ + 1]
         /\ pc' = "popVisualizer"
         /\ backend_output_payload' = out
         /\ UNCHANGED <<imuVars, window, spinReturn>>
    ELSE /\ queue' = q
         /\ calls' = c
         /\ ReturnFromKeyframe

BackendPopReturns_NoWait(q) == TRUE

\* Lines 293-294: backend_output_queue_.popBlocking() returns.
BackendPopReturns(q) == CanPop(q, OutQ("backend"))

MesherPopReturns_NoWait(q) == TRUE

\* Line 361: mesher_output_queue_.popBlocking(mesher_output_payload) returns.
MesherPopReturns(q) == CanPop(q, OutQ("mesher"))

VisualizerPopReturns_NoWait(q) == TRUE

\* Line 413: visualizer_output_queue_.popBlocking() returns.
VisualizerPopReturns(q) == CanPop(q, OutQ("visualizer"))

\* Lines 292-376: the pop of the backend output, then the switch on the
\* visualization type.
PopBackendOutput ==
  /\ Alive /\ pc = "popBackend"
  /\ BackendPopReturns(queue)
  /\ LET out == Popped(queue, OutQ("backend"))
         q1 == Pop(queue, OutQ("backend"))
         c1 == SwitchOnVizType(FLAGS_viz_type, calls)
     IN IF UsesMesher(FLAGS_viz_type)
          THEN /\ calls' = [c1 EXCEPT !.mesherPush = @ + 1]
               /\ backend_output_payload' = out
               /\ IF PushOk(q1, InQ("mesher"))
                    THEN /\ queue' = Push(q1, InQ("mesher"), [kf |-> k])
                         /\ pc' = "popMesher"
                         /\ UNCHANGED fatal
                    ELSE /\ fatal' = "CHECK"
                         /\ queue' = q1
                         /\ UNCHANGED pc
               /\ UNCHANGED <<imuVars, window, spinReturn>>
          ELSE /\ VisualizeStage(q1, c1, out)
               /\ UNCHANGED fatal
  /\ UNCHANGED <<cfgVars, frontendVars, sdVars, is_initialized, vio_backend_,
                 k, thread, keyframes, dispatchedAt, lifecycle, lastStep>>

\* Line 361: the pop of the mesher output; a failed pop is only logged.
PopMesherOutput ==
  /\ Alive /\ pc = "popMesher"
  /\ MesherPopReturns(queue)
  /\ VisualizeStage(Pop(queue, OutQ("mesher")), calls, backend_output_payload)
  /\ UNCHANGED <<cfgVars, frontendVars, sdVars, is_initialized, vio_backend_,
                 k, thread, fatal, keyframes, dispatchedAt, lifecycle,
                 lastStep>>

\* spinDisplayOnce renders a payload and only logs when handed none.
Renders(payload) == payload # NoPayload

\* Line 413: spinDisplayOnce(visualizer_output_queue_.popBlocking()).
PopVisualizerOutput ==
  /\ Alive /\ pc = "popVisualizer"
  /\ VisualizerPopReturns(queue)
  /\ queue' = Pop(queue, OutQ("visualizer"))
  /\ calls' = IF Renders(Popped(queue, OutQ("visualizer")))
                THEN [calls EXCEPT !.render = @ + 1] ELSE calls
  /\ ReturnFromKeyframe
  /\ UNCHANGED <<cfgVars, frontendVars, sdVars, is_initialized, vio_backend_,
                 k, thread, fatal, keyframes, dispatchedAt, lifecycle,
                 lastStep>>

\* ----------------------------------------------------------------- workers
\* One turn of a worker loop (VioBackEnd::spin, Mesher::run,
\* Visualizer3D::spin): it pops the next input from its queue, processes it
\* and pushes the output for the same keyframe.
WorkerSpin(w) ==
  /\ Alive /\ thread[w] = "running"
  /\ ~queue[InQ(w)].closed /\ queue[InQ(w)].items # <<>>
  /\ queue' = Push(Pop(queue, InQ(w)), OutQ(w),
                   [kf |-> Head(queue[InQ(w)].items).kf])
  /\ UNCHANGED <<cfgVars, imuVars, frontendVars, sdVars, obsVars,
                 is_initialized, vio_backend_, pc, k, backend_output_payload,
                 thread, fatal, spinReturn>>

\* ---------------------------------------------------------------- shutdown
\* The order in which stopThreads and joinThreads visit the workers.
WorkerOrder == <<"backend", "mesher", "visualizer">>

\* Pipeline::shutdown is entered: shutdown_ = true (lines 422-425).
ShutdownCall ==
  /\ Alive /\ sd_pc \in {"idle", "done"} /\ shutdownCalls < MaxShutdownCalls
  /\ shutdown_' = TRUE
  /\ shutdownCalls' = shutdownCalls + 1
  /\ sd_pc' = "stop_1"
  /\ lastStep' = [lastStep EXCEPT !.interrupted =
                    @ \/ (pc # "idle" /\ ~CanPop(queue, OutQ(WaitsOn(pc))))]
  /\ UNCHANGED <<cfgVars, imuVars, frontendVars, keyframes, dispatchedAt,
                 lifecycle, calls, window, joinAttempts, is_initialized,
                 vio_backend_, pc, k, backend_output_payload, queue, thread,
                 fatal, spinReturn>>

\* stopThreads, worker i: its input queue and its output queue are shut down
\* and the worker's own shutdown() is called.  vio_backend_ is a null
\* unique_ptr until initBackend ran: the call through it is undefined, it may
\* crash or pass.
StopWorker(i) ==
  /\ Alive /\ sd_pc = "stop_" \o ToString(i)
  /\ queue' = ShutdownQueue(ShutdownQueue(queue, InQ(WorkerOrder[i])),
                            OutQ(WorkerOrder[i]))
  /\ \E crash \in BOOLEAN :
       IF crash /\ WorkerOrder[i] = "backend" /\ vio_backend_ = "null"
         THEN fatal' = "SIGSEGV" /\ UNCHANGED sd_pc
         ELSE /\ sd_pc' = IF i < Len(WorkerOrder)
                            THEN "stop_" \o ToString(i + 1) ELSE "join"
              /\ UNCHANGED fatal
  /\ UNCHANGED <<cfgVars, imuVars, frontendVars, obsVars, shutdownCalls,
                 shutdown_, joinAttempts, is_initialized, vio_backend_, pc, k,
                 backend_output_payload, thread, spinReturn>>

\* std::thread::join on a thread that is not joinable (never launched, or
\* joined already) throws std::system_error; nothing catches it.
Joinable(t) == t = "running"

\* A worker loop ends once the worker, at its pop, observes the shutdown of
\* its input queue.
LoopEnds(w) == queue[InQ(w)].closed

\* The first thread, in the order of joinThreads, that join() throws on; 0
\* when all three are joinable.
FirstNotJoinable ==
  IF \A i \in 1..3 : Joinable(thread[WorkerOrder[i]]) THEN 0
  ELSE CHOOSE i \in 1..3 :
         /\ ~Joinable(thread[WorkerOrder[i]])
         /\ \A j \in 1..(i - 1) : Joinable(thread[WorkerOrder[j]])

\* joinThreads (lines 643-647): the three joins in order; each returns once
\* that worker's loop has ended.
JoinThreads ==
  /\ Alive /\ sd_pc = "join"
  /\ LET n == FirstNotJoinable
         joined == IF n = 0 THEN 1..3 ELSE 1..(n - 1)
         attempted == IF n = 0 THEN 1..3 ELSE 1..n
     IN /\ \A i \in joined : LoopEnds(WorkerOrder[i])
        /\ joinAttempts' =
             [w \in Workers |->
                IF \E i \in attempted : WorkerOrder[i] = w
                  THEN joinAttempts[w] + 1 ELSE joinAttempts[w]]
        /\ thread' =
             [w \in Workers |->
                IF \E i \in joined : WorkerOrder[i] = w
                  THEN "joined" ELSE thread[w]]
        /\ IF n = 0 THEN sd_pc' = "done" /\ UNCHANGED fatal
                    ELSE fatal' = "system_error" /\ UNCHANGED sd_pc
  /\ UNCHANGED <<cfgVars, imuVars, frontendVars, obsVars, shutdownCalls,
                 shutdown_, is_initialized, vio_backend_, pc, k,
                 backend_output_payload, queue, spinReturn>>

Next ==
  \/ SpinInitialize
  \/ SpinOnce
  \/ SpinSequential
  \/ PopBackendOutput
  \/ PopMesherOutput
  \/ PopVisualizerOutput
  \/ \E w \in Workers : WorkerSpin(w)
  \/ ShutdownCall
  \/ \E i \in 1..3 : StopWorker(i)
  \/ JoinThreads

Spec == Init /\ [][Next]_vars

\* The pipeline stepped by a caller whose packets may break the SyncPacket
\* invariant, in the supported configurations and without shutdown.
InitAnyPackets ==
  /\ Init
  /\ FLAGS_parallel_run /\ ~FLAGS_use_feature_selection /\ backend_type = 0

NextAnyPackets ==
  \/ SpinInitialize
  \/ SpinOnce
  \/ SpinOnceIllFormed
  \/ PopBackendOutput
  \/ PopMesherOutput
  \/ PopVisualizerOutput
  \/ \E w \in Workers : WorkerSpin(w)

SpecAnyPackets == InitAnyPackets /\ [][NextAnyPackets]_vars

\* --------------------------------------------------------------- properties
\* The orchestrator is inside processKeyframe.
InDispatch == pc \in {"processKeyframe", "popBackend", "popMesher",
                      "popVisualizer"}

StrictlyIncreasing(seq) ==
  \A i \in 1..(Len(seq) - 1) : seq[i] < seq[i + 1]

AllQueuesEmpty == \A n \in Queues : queue[n].items = <<>>

\* The keyframes whose successor frame has been handed to spin.
KeyframesWithSuccessor == {f \in keyframes : f + 1 <= k}

DispatchedWindowDropsOnePerAppend ==
  InDispatch =>
    /\ Len(imu_stamps_lkf_to_curr_f) = window.sumLen - (window.nPackets - 1)
    /\ Len(imu_accgyr_lkf_to_curr_f) = window.sumLen - (window.nPackets - 1)
    /\ StrictlyIncreasing(imu_stamps_lkf_to_curr_f)
    /\ window.nPackets >= window.nNonKf + 1

\* C2 as stated: with N >= 1 non-keyframe frames ingested since the reset
\* and then a keyframe, the dispatched window holds the sum of the
\* accumulated packets' window lengths minus (N-1).
DispatchedWindowDropsNMinusOne ==
  (InDispatch /\ window.nNonKf >= 1) =>
    Len(imu_stamps_lkf_to_curr_f) = window.sumLen - (window.nNonKf - 1)

\* Two non-keyframe frames, a keyframe and its successor were accumulated.
DispatchAfterTwoNonKeyframes ==
  InDispatch /\ Alive /\ window.nNonKf = 2 /\ window.nPackets = 4

ShutdownTwiceJoinsOnce ==
  is_initialized =>
    /\ \A w \in Workers : joinAttempts[w] <= 1
    /\ fatal # "system_error"

\* C5: a spin() call made after shutdown() has completed reports failure and
\* leaves nothing in the workers' queues.
StepAfterShutdownFails ==
  (lastStep.afterShutdown /\ pc = "idle" /\ Alive) =>
    /\ spinReturn = "false"
    /\ AllQueuesEmpty

\* C6: a step that was blocked in a pop of the backend, mesher or visualizer
\* output when shutdown() was called is not terminated instead of returning.
BlockedStepSurvivesShutdown ==
  (lastStep.interrupted /\ shutdownCalls = 1) => Alive

\* C7: in mode NONE the backend's landmark-map query is never invoked.
NoneModeNeverQueriesLandmarkMap ==
  FLAGS_viz_type = NONE => calls.lmkQuery = 0

NoneModeKeyframeDispatched ==
  /\ FLAGS_viz_type = NONE /\ FLAGS_visualize
  /\ pc = "idle" /\ calls.processKeyframe >= 2 /\ calls.render >= 2
  /\ calls.lmkQuery = 0

\* C8: when planes_ is copied into the visualizer payload of the keyframe
\* whose backend output the dispatch popped, no backend input for a later
\* keyframe is in flight.
PlanesCopiedBeforeNextKeyframe ==
  [][(calls'.visualizerPush # calls.visualizerPush
        /\ backend_output_payload' # NoPayload) =>
       \A i \in 1..Len(queue[InQ("backend")].items) :
         queue[InQ("backend")].items[i].kf <= backend_output_payload'.kf]_vars

\* planes_ was copied for a second keyframe, from that keyframe's output.
PlanesCopiedForSecondKeyframe ==
  /\ pc = "popVisualizer" /\ calls.visualizerPush >= 2
  /\ backend_output_payload = [kf |-> k]

\* The payloads waiting in queue n.
QueuedItems(n) == {queue[n].items[i] : i \in 1..Len(queue[n].items)}

InitializeAndLaunchOnceInFirstStep ==
  /\ lifecycle \in {<<>>, <<"initialize">>, <<"initialize", "launchThreads">>}
  /\ is_initialized <=> lifecycle = <<"initialize", "launchThreads">>
  /\ lifecycle # <<>> => k >= 1
  /\ calls.processKeyframe > 0 => is_initialized
  /\ (k = 1 /\ is_initialized) =>
       /\ pc = "idle" /\ spinReturn = "true"
       /\ calls = NoCalls
       /\ imu_stamps_lkf_to_curr_f = <<>> /\ imu_accgyr_lkf_to_curr_f = <<>>
       /\ AllQueuesEmpty
  /\ is_initialized => calls.processStereoFrame = k - 1

ThirdStepRunsPerFrameProcedure ==
  /\ k = 3 /\ pc = "idle" /\ is_initialized
  /\ lifecycle = <<"initialize", "launchThreads">>
  /\ calls.processStereoFrame = 2

\* C11: with feature selection enabled the first keyframe dispatch is fatal
\* inside processKeyframe before anything is pushed to any queue; until that
\* dispatch the steps run as usual (absent a shutdown they return true).
FeatureSelectionDispatchIsFatal ==
  (FLAGS_use_feature_selection /\ is_initialized) =>
    /\ calls.backendPush = 0 /\ calls.mesherPush = 0
    /\ calls.visualizerPush = 0 /\ AllQueuesEmpty
    /\ calls.processKeyframe <= 1
    /\ calls.processKeyframe = 1 <=>
         (fatal = "LOG_FATAL" /\ pc = "processKeyframe")
    /\ (calls.processKeyframe = 0 /\ shutdownCalls = 0) =>
         /\ Alive /\ pc = "idle" /\ spinReturn = "true"
         /\ calls.processStereoFrame = k - 1

\* Two non-keyframe steps ran, then the dispatch of keyframe 3 was fatal.
FeatureSelectionFatalAtStep4 ==
  /\ FLAGS_use_feature_selection /\ k = 4 /\ keyframes = {3}
  /\ fatal = "LOG_FATAL" /\ pc = "processKeyframe"
  /\ calls.processStereoFrame = 3 /\ AllQueuesEmpty

\* C12: an unsupported backend type is fatal in the first step, inside
\* initialize: no thread is launched and is_initialized stays false; for a
\* supported type the backend is the one initBackend selects for that type,
\* constructed by the single initialize, and stays so.
UnsupportedBackendIsFatalAtInit ==
  /\ backend_type \notin {0, 1} =>
       /\ ~is_initialized /\ vio_backend_ = "null"
       /\ \A w \in Workers : thread[w] = "not_started"
       /\ "launchThreads" \notin {lifecycle[i] : i \in 1..Len(lifecycle)}
       /\ k >= 1 => (k = 1 /\ fatal = "LOG_FATAL" /\ pc = "initBackend")
  /\ backend_type \in {0, 1} =>
       /\ vio_backend_ \in {"null", InitBackend(backend_type)}
       /\ vio_backend_ # "LOG_FATAL"
       /\ k >= 1 =>
            /\ vio_backend_ # "null" /\ is_initialized
            /\ lifecycle = <<"initialize", "launchThreads">>

\* The first step with backend type 2 ended in initBackend's LOG(FATAL).
UnsupportedBackendFirstStep ==
  /\ backend_type = 2 /\ k = 1 /\ fatal = "LOG_FATAL" /\ pc = "initBackend"
  /\ lifecycle = <<"initialize">>

\* C13: with FLAGS_parallel_run false no step launches a worker thread or
\* dispatches a keyframe, and once a step was made the process has
\* terminated.
SequentialModeNeverRuns ==
  ~FLAGS_parallel_run =>
    /\ \A w \in Workers : thread[w] = "not_started"
    /\ calls.processKeyframe = 0
    /\ k >= 1 => ~Alive

\* C14: a step whose packet has no samples, or a sample count different
\* from its timestamp count, ends in a failed assertion of the accumulation
\* stage, before the preintegration query and the frontend.
IllFormedStepIsFatalAtAccumulation ==
  lastStep.illFormed =>
    /\ fatal = "CHECK" /\ pc = "accumulate"
    /\ calls.processStereoFrame < k - 1

\* C15: with packets that satisfy the SyncPacket invariant, the accumulation
\* buffer always has strictly increasing timestamps and as many samples as
\* timestamps, and after an append it ends at the ingested frame's timestamp.
AccumulationBufferWellFormed ==
  /\ StrictlyIncreasing(imu_stamps_lkf_to_curr_f)
  /\ Len(imu_accgyr_lkf_to_curr_f) = Len(imu_stamps_lkf_to_curr_f)
  /\ imu_stamps_lkf_to_curr_f # <<>> =>
       imu_stamps_lkf_to_curr_f[Len(imu_stamps_lkf_to_curr_f)]
         = FrameTimestamp(k)

\* Three packets were appended since the last reset, which came after a
\* dispatch.
ThreeAppendsAfterReset ==
  /\ pc = "idle" /\ dispatchedAt # {} /\ window.nPackets = 3
  /\ Len(imu_stamps_lkf_to_curr_f) = window.sumLen - 2

\* C16: a shutdown() called on the running pipeline is not cut short by the
\* end of the process, and when it returns shutdown_ is set, the six queues
\* are shut down and the three threads are joined; a thread is joined only
\* after its input queue was shut down.
ShutdownFromRunningReturns ==
  (is_initialized /\ shutdownCalls = 1 /\ ~FLAGS_use_feature_selection) =>
    /\ Alive
    /\ \A w \in Workers : thread[w] = "joined" => queue[InQ(w)].closed
    /\ sd_pc = "done" =>
         /\ shutdown_
         /\ \A n \in Queues : queue[n].closed
         /\ \A w \in Workers : thread[w] = "joined"

\* The parts of C16 that hold: what shutdown() has done when it returns.
ShutdownFromRunningEffects ==
  (is_initialized /\ shutdownCalls = 1) =>
    /\ \A w \in Workers : thread[w] = "joined" => queue[InQ(w)].closed
    /\ sd_pc = "done" =>
         /\ shutdown_
         /\ \A n \in Queues : queue[n].closed
         /\ \A w \in Workers : thread[w] = "joined"

\* C17 (as amended): the measurements in a VioBackEndInputPayload are those
\* returned by the processStereoFrame call of the dispatching step, the step
\* of the frame after the keyframe.
PayloadCarriesCurrentStepMeasurements ==
  \A p \in QueuedItems(InQ("backend")) :
    /\ p.kf = k /\ (k - 1) \in keyframes
    /\ p.meas = k

\* C17 as stated: the measurements in the payload are those computed when
\* the keyframe, the frame before the dispatching step's, was processed.
PayloadCarriesPreviousFrameMeasurements ==
  \A p \in QueuedItems(InQ("backend")) : p.meas = p.kf - 1

\* The payload of the dispatch in step 4, for keyframe 3, is in the queue.
PayloadOfStep4Queued ==
  /\ 3 \in keyframes /\ k = 4 /\ pc = "popBackend"
  /\ \E p \in QueuedItems(InQ("backend")) : p.kf = 4 /\ p.meas = 4

\* All of seq but its last element.
Front(seq) == SubSeq(seq, 1, Len(seq) - 1)

IsPrefix(a, b) == Len(a) <= Len(b) /\ SubSeq(b, 1, Len(a)) = a

\* C18: the buffer is cleared and timestamp_lkf set to the current frame's
\* timestamp exactly when a keyframe dispatch returns to spinOnce, not
\* during the dispatch; a step's append leaves timestamp_lkf alone and
\* removes nothing but the last (boundary) sample of the buffer.
ResetExactlyAfterDispatch ==
  [][/\ (InDispatch /\ pc' = "idle") =>
          /\ imu_stamps_lkf_to_curr_f' = <<>>
          /\ imu_accgyr_lkf_to_curr_f' = <<>>
          /\ timestamp_lkf' = FrameTimestamp(k)
     /\ ~(InDispatch /\ pc' = "idle") =>
          /\ timestamp_lkf' = timestamp_lkf
          /\ IsPrefix(Front(imu_stamps_lkf_to_curr_f),
                      imu_stamps_lkf_to_curr_f')
          /\ IsPrefix(Front(imu_accgyr_lkf_to_curr_f),
                      imu_accgyr_lkf_to_curr_f')
          /\ imu_stamps_lkf_to_curr_f # <<>> =>
               imu_stamps_lkf_to_curr_f' # <<>>
     /\ (InDispatch /\ InDispatch') =>
          UNCHANGED <<imu_stamps_lkf_to_curr_f, imu_accgyr_lkf_to_curr_f>>
    ]_vars

\* The dispatch of step 4 returned after a non-dispatching step 3: the window
\* of three packets was cleared and timestamp_lkf is frame 4's.
ResetAfterDispatchOfStep4 ==
  /\ pc = "idle" /\ k = 4 /\ dispatchedAt = {4}
  /\ imu_stamps_lkf_to_curr_f = <<>> /\ timestamp_lkf = FrameTimestamp(4)

\* The dispatches whose switch on the visualization type has run.
SwitchRuns ==
  IF pc \in {"processKeyframe", "popBackend"} /\ fatal # "CHECK"
    THEN calls.processKeyframe - 1 ELSE calls.processKeyframe

\* n if b, else none.
TimesIf(b, n) == IF b THEN n ELSE 0

\* C19 (as amended): per dispatch the mode alone selects the computation:
\* mesh-2d and mesh-2d-sparse build a 2D mesh and make no landmark-map
\* query; point-cloud makes the landmark-map query; point-cloud-repeated
\* calls get3DPoints instead and makes no landmark-map query;
\* mesh-2d-to-3d-sparse makes the landmark-map query and uses the mesher;
\* none (and the two modes without a case) compute nothing; at most one
\* variant runs per dispatch.
ModeSelectsComputation ==
  /\ calls.createMesh2D = TimesIf(FLAGS_viz_type = MESH2D, SwitchRuns)
  /\ calls.createMesh2dStereo =
       TimesIf(FLAGS_viz_type = MESH2Dsparse, SwitchRuns)
  /\ calls.get3DPoints =
       TimesIf(FLAGS_viz_type = POINTCLOUD_REPEATEDPOINTS, SwitchRuns)
  /\ calls.lmkQuery =
       TimesIf(FLAGS_viz_type \in {POINTCLOUD, MESH2DTo3Dsparse}, SwitchRuns)
  /\ calls.mesherPush = TimesIf(FLAGS_viz_type = MESH2DTo3Dsparse, SwitchRuns)

\* C19 as stated: the landmark-map query is made once per dispatch in each
\* of the two point-cloud modes and never in the two mesh-only modes and in
\* mode none.
BothPointCloudModesQueryLandmarkMap ==
  /\ FLAGS_viz_type \in {MESH2D, MESH2Dsparse, NONE} => calls.lmkQuery = 0
  /\ FLAGS_viz_type \in {POINTCLOUD, POINTCLOUD_REPEATEDPOINTS} =>
       calls.lmkQuery = SwitchRuns

\* Two dispatches ran their switch in mode point-cloud-repeated.
RepeatedPointCloudDispatchedTwice ==
  /\ FLAGS_viz_type = POINTCLOUD_REPEATEDPOINTS /\ pc = "idle"
  /\ calls.processKeyframe = 2 /\ calls.get3DPoints = 2 /\ calls.lmkQuery = 0

VisualizerCheckDoesNotWait ==
  (Alive /\ pc = "popVisualizer") => VisualizerPopReturns(queue)

ShutdownBeforeFirstStepIsSafe ==
  (~is_initialized /\ shutdownCalls >= 1) =>
    /\ fatal \notin {"SIGSEGV", "system_error"}
    /\ \A w \in Workers : thread[w] = "not_started" => joinAttempts[w] = 0

\* The dispatch was waiting for a worker when shutdown() was called, and its
\* pop of the backend output returns, or has returned, empty.
BackendPopInterruptedEmpty ==
  /\ lastStep.interrupted
  /\ \/ pc = "popBackend" /\ queue[OutQ("backend")].closed
     \/ pc \in {"popMesher", "popVisualizer"}
          /\ backend_output_payload = NoPayload

\* C24: a dispatch whose pop of the backend output returns empty because of
\* a shutdown puts nothing more into the mesher or the visualizer input
\* queue and renders nothing.
EmptyBackendPopAbandonsKeyframe ==
  [][BackendPopInterruptedEmpty =>
       /\ \A w \in {"mesher", "visualizer"} :
            Len(queue'[InQ(w)].items) <= Len(queue[InQ(w)].items)
       /\ calls'.render = calls.render
    ]_vars

====
